---- MODULE Spec2Model ----
(***************************************************************************)
(* A model of matter-tree-2: the App component (its canvas effect), the    *)
(* TreePhysics scene built by makeTree/buildTree, and the per-tick force   *)
(* callback applyForces.                                                   *)
(*                                                                         *)
(* Heap objects (bodies, constraints, TreeNodes) are kept in sequences and *)
(* referred to by their index; 0 is "no object".                           *)
(***************************************************************************)
EXTENDS Integers, Sequences, FiniteSets, TLC

\* ------------------------------------------------------------------ bounds

\* The longest edge list handed to the tree builder.
MaxEdges == 3

\* How many of makeTree's own edges (from the first) make up the example tree.
ExampleEdges == 4

\* The node identifiers the enumerated edge lists are drawn from; rootId is
\* the id makeTree passes to buildTree.
Ids == {"root", "root2", "A"}

rootId == "root"

\* makeTree's edge list
edges ==
    << <<"root", "root2">>, <<"root2", "A">>, <<"A", "B">>, <<"A", "C">>,
       <<"B", "D">>, <<"B", "E">>, <<"C", "F">>, <<"C", "G">>, <<"E", "H">>,
       <<"E", "I">>, <<"G", "J">> >>

ExampleEdgeList == SubSeq(edges, 1, IF ExampleEdges < Len(edges) THEN ExampleEdges ELSE Len(edges))

\* every identifier an input can mention
AllIds == Ids \cup UNION {{ExampleEdgeList[i][1], ExampleEdgeList[i][2]} : i \in 1..Len(ExampleEdgeList)}

\* ------------------------------------------------------------ JS helpers

EmptyMap == [x \in {} |-> 0]

\* Map.has / Map.get(k) with a default for undefined / Map.set
MapHas(m, k) == k \in DOMAIN m

MapGet(m, k, default) == IF k \in DOMAIN m THEN m[k] ELSE default

MapSet(m, k, v) == [x \in (DOMAIN m) \cup {k} |-> IF x = k THEN v ELSE m[x]]

Max2(a, b) == IF a >= b THEN a ELSE b

RECURSIVE SeqCount(_, _)
SeqCount(s, x) ==
    IF s = <<>> THEN 0
    ELSE (IF Head(s) = x THEN 1 ELSE 0) + SeqCount(Tail(s), x)

SeqRange(s) == {s[i] : i \in 1..Len(s)}

\* JS numbers that may be NaN
Num(n) == [nan |-> FALSE, val |-> n]

NaN == [nan |-> TRUE, val |-> 0]

NumSub(a, b) == IF a.nan \/ b.nan THEN NaN ELSE Num(a.val - b.val)

\* WebIDL "unsigned long" conversion done by the canvas width/height setters
ToUnsignedLong(n) == IF n.nan \/ n.val < 0 THEN 0 ELSE n.val

Digits == <<"0", "1", "2", "3", "4", "5", "6", "7", "8", "9">>

IsDigit(c) == \E d \in 1..10 : Digits[d] = c

DigitVal(c) == (CHOOSE d \in 1..10 : Digits[d] = c) - 1

RECURSIVE ParseDigits(_, _)
ParseDigits(s, acc) ==
    IF s = <<>> \/ ~IsDigit(Head(s)) THEN acc
    ELSE ParseDigits(Tail(s), acc * 10 + DigitVal(Head(s)))

\* parseFloat of a computed style value such as "16px" (a sequence of
\* characters): the leading number, NaN when there is none.
parseFloat(s) ==
    IF s = <<>> \/ ~IsDigit(Head(s)) THEN NaN ELSE Num(ParseDigits(s, 0))

\* What element.dataset.x = v stores: the string form of v.
DatasetString(v) == IF v = 1 THEN "1" ELSE "0"

\* JS truthiness of a dataset entry: undefined (absent, "") is falsy, every
\* non-empty string is truthy.
Truthy(s) == s /= ""

\* ------------------------------------------------------------------ CFG

nodeRadius == 12

leafRadius == 8

springLength == 80

leafSpringLength == 15

\* ------------------------------------------------------- DOM environment

\* The decimal digits of a non-negative integer, as characters
RECURSIVE DigitsOf(_)
DigitsOf(n) ==
    IF n < 10 THEN <<Digits[n + 1]>> ELSE DigitsOf(n \div 10) \o <<Digits[(n % 10) + 1]>>

\* The container (canvas.parentElement) as the browser lays it out: its
\* client size (padding included) and its paddings, in pixels.
Containers ==
    { [connected |-> TRUE, clientWidth |-> 832, clientHeight |-> 432,
       paddingLeft |-> 16, paddingRight |-> 16, paddingTop |-> 16, paddingBottom |-> 16],
      [connected |-> TRUE, clientWidth |-> 416, clientHeight |-> 816,
       paddingLeft |-> 10, paddingRight |-> 6, paddingTop |-> 12, paddingBottom |-> 4] }

InitialContainer ==
    [connected |-> TRUE, clientWidth |-> 832, clientHeight |-> 432,
     paddingLeft |-> 16, paddingRight |-> 16, paddingTop |-> 16, paddingBottom |-> 16]

\* An element that is not in the document has no layout box.
DetachedContainer ==
    [connected |-> FALSE, clientWidth |-> 0, clientHeight |-> 0,
     paddingLeft |-> 0, paddingRight |-> 0, paddingTop |-> 0, paddingBottom |-> 0]

\* getComputedStyle(container).paddingX: "<n>px", and the empty string for an
\* element that is not in the document
ComputedPadding(c, px) == IF c.connected THEN DigitsOf(px) \o <<"p", "x">> ELSE <<>>

\* (mutant) the right padding is not subtracted
InnerWidthNoRightPadding(c) ==
    NumSub(Num(c.clientWidth), parseFloat(ComputedPadding(c, c.paddingLeft)))

\* container size minus padding, as both resize handlers compute it
InnerWidth(c) ==
    NumSub(NumSub(Num(c.clientWidth), parseFloat(ComputedPadding(c, c.paddingLeft))),
           parseFloat(ComputedPadding(c, c.paddingRight)))

InnerHeight(c) ==
    NumSub(NumSub(Num(c.clientHeight), parseFloat(ComputedPadding(c, c.paddingTop))),
           parseFloat(ComputedPadding(c, c.paddingBottom)))

\* ------------------------------------------------------------ edge lists

EdgeLists == UNION {[1..n -> Ids \X Ids] : n \in 0..MaxEdges}

\* makeTree: adjacency.set(p, (adjacency.get(p) || []).concat(c)) per edge
RECURSIVE AdjacencyOf(_)
AdjacencyOf(es) ==
    IF es = <<>> THEN EmptyMap
    ELSE LET prev == AdjacencyOf(SubSeq(es, 1, Len(es) - 1))
             e == es[Len(es)]
         IN MapSet(prev, e[1], Append(MapGet(prev, e[1], <<>>), e[2]))

\* The inputs of buildTree: every adjacency an edge list over Ids of at most
\* MaxEdges edges gives, and the example tree.
Adjacencies == {AdjacencyOf(es) : es \in EdgeLists} \cup {AdjacencyOf(ExampleEdgeList)}

\* adjacency.get(id) || []
ChildrenOf(adj, id) == MapGet(adj, id, <<>>)

\* ------------------------------------------------------------------ state

VARIABLES
    \* App and the DOM
    mounted,          \* the component is mounted: canvasRef.current is the canvas
    attached,         \* the canvas is in the document (it has a parentElement)
    started,          \* canvas.dataset.started ("" when absent)
    effectActive,     \* the effect has run and its cleanup has not
    cleanupFn,        \* what the last effect run returned: "none" or "remove"
    appListeners,     \* App's handleResize listeners on window
    treeListeners,    \* TreePhysics resize listeners on window
    tickHandlers,     \* beforeUpdate callbacks on the engine
    makeTreeCalls,    \* calls of makeTree(canvas)
    container,        \* the container's layout
    canvas,           \* [width, height]
    render,           \* render.options.width/height and render.bounds
    \* buildTree's locals
    pc,               \* "idle", "bfs", "build", "built", "overflow"
    adjacency, depth, q, counts, idxByDepth, bodyCache,
    stack,            \* buildRec frames [node, ci], innermost last
    ret,              \* the TreeNode the last buildRec call returned, 0 if none
    \* the heap
    bodies, constraints, tnodes, layout,
    \* the world and the scene's fields
    worldBodies, worldConstraints, root, nodes, nodeBodies, rootPin, rootPinPointA,
    \* body forces accumulated by applyForces since the last engine update
    force,
    \* one call of applyForces, statement by statement
    simPc,            \* "off", "gravity", "upward", "repulsion", "center", "damping", "done"
    fi, fj,           \* the repulsion loop's i and j (from 1)
    position,         \* body -> [x, y]
    velocity,         \* body -> [x, y, den]: the velocity (x / den, y / den)
    bodyForce,        \* body -> the force the call has applied so far
    pairsSeen,        \* the <<i, j>> the inner loop body has run for
    repLog            \* the Body.applyForce calls of the repulsion loop

appVars == <<mounted, attached, started, effectActive, cleanupFn, appListeners,
             treeListeners, tickHandlers, makeTreeCalls, container, canvas, render>>

localVars == <<adjacency, depth, q, counts, idxByDepth, bodyCache, stack, ret>>

heapVars == <<bodies, constraints, tnodes, layout>>

sceneVars == <<worldBodies, worldConstraints, root, nodes, nodeBodies, rootPin,
               rootPinPointA>>

simVars == <<simPc, fi, fj, position, velocity, bodyForce, pairsSeen, repLog>>

mainVars == <<appVars, pc, localVars, heapVars, sceneVars, force>>

vars == <<mainVars, simVars>>

\* No call of applyForces is being followed statement by statement.
SimOff ==
    /\ simPc = "off" /\ fi = 0 /\ fj = 0
    /\ position = <<>> /\ velocity = <<>> /\ bodyForce = <<>>
    /\ pairsSeen = <<>> /\ repLog = <<>>

\* The script is not inside makeTree: events and effects can be delivered.
Quiescent == pc \in {"idle", "built", "overflow"}

\* ------------------------------------------------------------- the graph

\* the ids one edge away from a set of ids
Successors(adj, S) == UNION {SeqRange(ChildrenOf(adj, x)) : x \in S}

\* the ids at most k edges away from the root
RECURSIVE Within(_, _)
Within(adj, k) ==
    IF k = 0 THEN {rootId}
    ELSE Within(adj, k - 1) \cup Successors(adj, Within(adj, k - 1))

Reachable(adj) == Within(adj, Cardinality(AllIds))

\* the number of edges of a shortest path from the root
Distance(adj, id) == CHOOSE k \in 0..Cardinality(AllIds) :
                        /\ id \in Within(adj, k)
                        /\ \A j \in 0..(k - 1) : id \notin Within(adj, j)

\* the parent -> child edges reachable from the root, as <<parent, index>>
ReachableEdges(adj) ==
    {<<p, i>> \in Reachable(adj) \X (1..(MaxEdges + Len(edges))) :
        i <= Len(ChildrenOf(adj, p))}

\* Tree-shaped: no reachable edge leads to the root, and every other
\* reachable id is the child of exactly one reachable edge.
TreeShaped(adj) ==
    \A id \in Reachable(adj) :
        Cardinality({e \in ReachableEdges(adj) : ChildrenOf(adj, e[1])[e[2]] = id})
            = IF id = rootId THEN 0 ELSE 1

\* The call stack. The engine's limit is far beyond any path without a
\* repeated id; a recursion deeper than the number of reachable ids is
\* building an id it is still inside of, never returns, and ends in a
\* RangeError. The model raises it at the first call beyond that depth.
StackLimit == Cardinality(Reachable(adjacency)) + 1

BfsOver == pc \in {"build", "built", "overflow"}

\* --------------------------------------------------------------- TreeNode

\* Node identifiers: `${tag}${id}` for tree nodes (tag ""), and
\* `leaf_${id}_${i}` / `terminal_leaf_${id}_${i}` for decorative leaves.
MainId(id) == [tag |-> "", id |-> id, i |-> 0]

LeafId(id, i) == [tag |-> "leaf_", id |-> id, i |-> i]

TerminalLeafId(id, i) == [tag |-> "terminal_leaf_", id |-> id, i |-> i]

\* new TreeNode(id, body)
TreeNode(id, body) == [id |-> id, body |-> body, children |-> <<>>, edges |-> <<>>]

\* The heap and world as one value, for the operations that update them.
Heap ==
    [bodies |-> bodies, constraints |-> constraints, tnodes |-> tnodes,
     worldBodies |-> worldBodies, worldConstraints |-> worldConstraints,
     nodeBodies |-> nodeBodies]

\* Constraint.create({bodyA, bodyB, length, ...})
ConstraintCreate(bodyA, bodyB, length, kind) ==
    [bodyA |-> bodyA, bodyB |-> bodyB, length |-> length, kind |-> kind]

\* (mutant) addChild records only branch springs in `edges`
AddChildNoLeafEdge(h, parent, child, length, isLeaf) ==
    LET c == ConstraintCreate(h.tnodes[parent].body, h.tnodes[child].body, length,
                              IF isLeaf THEN "leafSpring" ELSE "spring")
    IN [h EXCEPT !.constraints = Append(@, c),
                 !.tnodes[parent].children = Append(@, child),
                 !.tnodes[parent].edges =
                     IF isLeaf THEN @ ELSE Append(@, Len(h.constraints) + 1)]

\* TreeNode.addChild(child, opt, isLeaf): the constraint it returns is the
\* last one of the result's constraints.
AddChild(h, parent, child, length, isLeaf) ==
    LET c == ConstraintCreate(h.tnodes[parent].body, h.tnodes[child].body, length,
                              IF isLeaf THEN "leafSpring" ELSE "spring")
    IN [h EXCEPT !.constraints = Append(@, c),
                 !.tnodes[parent].children = Append(@, child),
                 !.tnodes[parent].edges = Append(@, Len(h.constraints) + 1)]

\* TreeNode.traverse(fn) with fn pushing the node: the pre-order node list
RECURSIVE Traverse(_, _)
RECURSIVE TraverseAll(_, _)
Traverse(tn, n) == <<n>> \o TraverseAll(tn, tn[n].children)

TraverseAll(tn, cs) ==
    IF cs = <<>> THEN <<>> ELSE Traverse(tn, Head(cs)) \o TraverseAll(tn, Tail(cs))

\* ----------------------------------------------------- decorative leaves

\* Math.random() returns a number in [0, 1): the values drawn here, in
\* thousandths, are its least and (nearly) its greatest.
Randoms == {0, 999}

\* Math.floor(Math.random() * n) for the draw r
FloorRandomTimes(r, n) == (r * n) \div 1000

\* 2 + Math.floor(Math.random() * 3)
LeafCounts == {2 + FloorRandomTimes(r, 3) : r \in Randoms}

\* 3 + Math.floor(Math.random() * 4)
TerminalLeafCounts == {3 + FloorRandomTimes(r, 4) : r \in Randoms}

\* One iteration of either leaf loop: a leaf body, its TreeNode, the leaf
\* spring from the node, World.add of both, and the push onto nodeBodies.
AttachLeaf(h, node, leafId) ==
    LET leafBody == Len(h.bodies) + 1
        leafNode == Len(h.tnodes) + 1
        h1 == [h EXCEPT
                 !.bodies = Append(@, [label |-> leafId, kind |-> "leaf",
                                       radius |-> leafRadius]),
                 !.tnodes = Append(@, TreeNode(leafId, leafBody))]
        h2 == AddChild(h1, node, leafNode, leafSpringLength, TRUE)
    IN [h2 EXCEPT !.worldBodies = Append(@, leafBody),
                  !.worldConstraints = Append(@, Len(h2.constraints)),
                  !.nodeBodies = Append(@, leafBody)]

RECURSIVE AddLeafNodesFrom(_, _, _, _)
AddLeafNodesFrom(h, parentNode, i, numLeaves) ==
    IF i >= numLeaves THEN h
    ELSE AddLeafNodesFrom(AttachLeaf(h, parentNode, LeafId(h.tnodes[parentNode].id.id, i)),
                          parentNode, i + 1, numLeaves)

\* addLeafNodes(parentNode, childNode) with numLeaves drawn
AddLeafNodes(h, parentNode, childNode, numLeaves) ==
    AddLeafNodesFrom(h, parentNode, 0, numLeaves)

RECURSIVE AddTerminalLeavesFrom(_, _, _, _)
AddTerminalLeavesFrom(h, terminalNode, i, numLeaves) ==
    IF i >= numLeaves THEN h
    ELSE AddTerminalLeavesFrom(
             AttachLeaf(h, terminalNode, TerminalLeafId(h.tnodes[terminalNode].id.id, i)),
             terminalNode, i + 1, numLeaves)

\* addTerminalLeaves(terminalNode) with numLeaves drawn
AddTerminalLeaves(h, terminalNode, numLeaves) ==
    AddTerminalLeavesFrom(h, terminalNode, 0, numLeaves)

\* ------------------------------------------------------------- buildTree

\* (mutant) the child is given its parent's depth
ChildDepthNoIncrement(d, p) == MapGet(d, p, 0)

\* depth.set(c, (depth.get(p) ?? 0) + 1)
ChildDepth(d, p) == MapGet(d, p, 0) + 1

\* the for loop over adjacency.get(p) of the breadth-first pass
RECURSIVE VisitChildren(_, _, _, _)
VisitChildren(cs, p, d, queue) ==
    IF cs = <<>> THEN [depth |-> d, q |-> queue]
    ELSE IF MapHas(d, Head(cs)) THEN VisitChildren(Tail(cs), p, d, queue)
    ELSE VisitChildren(Tail(cs), p, MapSet(d, Head(cs), ChildDepth(d, p)),
                       Append(queue, Head(cs)))

\* for (const [id, d] of depth) counts.set(d, (counts.get(d) || 0) + 1)
CountsOf(d) ==
    [k \in {d[id] : id \in DOMAIN d} |-> Cardinality({id \in DOMAIN d : d[id] = k})]

\* (mutant) the depth test lets depth 0 through
DepthPositiveOrZero(d, id) == MapHas(d, id) /\ d[id] >= 0

\* depth.get(id) > 0 (undefined > 0 is false)
DepthPositive(d, id) == MapHas(d, id) /\ d[id] > 0

\* (mutant) every layer is seeded on the same line
SeedPositionFlat(cv, d, k, slots) ==
    [x |-> <<cv.width * (2 * (slots + 1) + 6 * (k + 1)), 10 * (slots + 1)>>,
     y |-> cv.height - 120]

\* makeBody's position for the k-th body of a layer of `slots` at depth d:
\* x as a fraction <<numerator, denominator>>, y in pixels.
SeedPosition(cv, d, k, slots) ==
    [x |-> <<cv.width * (2 * (slots + 1) + 6 * (k + 1)), 10 * (slots + 1)>>,
     y |-> cv.height - 120 - d * 90]

\* makeBody(id): the new body (the next free index), its seed position and
\* the layer counter it advances
MakeBody(h, d, idx, lay, cv, id) ==
    LET dd == MapGet(d, id, 0)
        k == MapGet(idx, dd, 0)
        slots == MapGet(CountsOf(d), dd, 0)
        b == Len(h.bodies) + 1
    IN [h |-> [h EXCEPT !.bodies = Append(@, [label |-> MainId(id), kind |-> "node",
                                               radius |-> nodeRadius])],
        idxByDepth |-> MapSet(idx, dd, k + 1),
        layout |-> MapSet(lay, b, SeedPosition(cv, dd, k, slots)),
        body |-> b]

\* (mutant) getBody makes a new body on every call
GetBodyNoCache(h, cache, d, idx, lay, cv, id) ==
    LET m == MakeBody(h, d, idx, lay, cv, id)
    IN [h |-> m.h, bodyCache |-> MapSet(cache, id, m.body),
        idxByDepth |-> m.idxByDepth, layout |-> m.layout, body |-> m.body]

\* getBody(id): bodyCache.get(id) || (bodyCache.set(id, makeBody(id)), bodyCache.get(id))
GetBody(h, cache, d, idx, lay, cv, id) ==
    IF MapHas(cache, id)
    THEN [h |-> h, bodyCache |-> cache, idxByDepth |-> idx, layout |-> lay,
          body |-> cache[id]]
    ELSE LET m == MakeBody(h, d, idx, lay, cv, id)
         IN [h |-> m.h, bodyCache |-> MapSet(cache, id, m.body),
             idxByDepth |-> m.idxByDepth, layout |-> m.layout, body |-> m.body]

\* [...bodyCache.values()]: a Map lists its values in insertion order, which
\* is the order the bodies were created in (increasing index).
RECURSIVE SortedSeq(_)
SortedSeq(S) ==
    IF S = {} THEN <<>>
    ELSE LET m == CHOOSE x \in S : \A y \in S : x <= y
         IN <<m>> \o SortedSeq(S \ {m})

CacheValues(cache) == SortedSeq({cache[id] : id \in DOMAIN cache})

\* The root pin's anchor, in eighths of a pixel (exact for every integer
\* canvas size): buildTree pins at (center.x, height - 100), the resize
\* handler moves the pin to (center.x, center.y * 1.25).
center(cv) == [x2 |-> cv.width, y2 |-> cv.height]    \* twice the centre

PinAtBuild(cv) == [x |-> 4 * center(cv).x2, y |-> 8 * (cv.height - 100)]

PinAtResize(cv) == [x |-> 4 * center(cv).x2, y |-> 5 * center(cv).y2]

\* ---------------------------------------------------------------- canvas

\* updateCanvasSize / the first half of the scene's resize handler
SizedCanvas(c) ==
    [width |-> ToUnsignedLong(InnerWidth(c)), height |-> ToUnsignedLong(InnerHeight(c))]

\* render.options.width/height and render.bounds as the resize handler sets them
RenderFor(newWidth, newHeight) ==
    [optWidth |-> newWidth, optHeight |-> newHeight, minX |-> Num(0), minY |-> Num(0),
     maxX |-> newWidth, maxY |-> newHeight]

NoRender == RenderFor(Num(0), Num(0))

WallBody(i) == [label |-> [tag |-> "wall", id |-> "", i |-> i], kind |-> "wall",
                radius |-> 0]

MouseConstraint == ConstraintCreate(0, 0, 0, "mouse")

\* ------------------------------------------------------------------ Init

Init ==
    /\ mounted = TRUE /\ attached = TRUE
    /\ started = "" /\ effectActive = FALSE /\ cleanupFn = "none"
    /\ appListeners = 0 /\ treeListeners = 0 /\ tickHandlers = 0
    /\ makeTreeCalls = 0
    /\ container = InitialContainer
    /\ canvas = [width |-> 300, height |-> 150]
    /\ render = NoRender
    /\ pc = "idle"
    /\ adjacency \in Adjacencies
    /\ depth = EmptyMap /\ q = <<>> /\ counts = EmptyMap /\ idxByDepth = EmptyMap
    /\ bodyCache = EmptyMap /\ stack = <<>> /\ ret = 0
    /\ bodies = <<>> /\ constraints = <<>> /\ tnodes = <<>> /\ layout = EmptyMap
    /\ worldBodies = <<>> /\ worldConstraints = <<>>
    /\ root = 0 /\ nodes = <<>> /\ nodeBodies = <<>>
    /\ rootPin = 0 /\ rootPinPointA = [x |-> 0, y |-> 0]
    /\ force = EmptyMap
    /\ SimOff

\* ------------------------------------------------------------------- App

\* (mutant) the effect does not look at the started flag
EffectGuardNoFlag == mounted

\* The guard of the effect: canvasRef.current && !canvasRef.current.dataset.started
EffectGuard == mounted /\ ~Truthy(started)

\* App's effect. When the guard holds it sizes the canvas, listens for
\* resize, marks the canvas started and calls makeTree, which constructs the
\* scene and enters buildTree (up to the start of the breadth-first loop).
EffectRun ==
    /\ mounted /\ ~effectActive /\ Quiescent
    /\ effectActive' = TRUE
    /\ cleanupFn' = "none"
    /\ IF EffectGuard
       THEN /\ canvas' = SizedCanvas(container)
            /\ appListeners' = appListeners + 1
            /\ started' = DatasetString(1)
            /\ makeTreeCalls' = makeTreeCalls + 1
            \* new TreePhysics(canvas)
            /\ render' = RenderFor(Num(canvas'.width), Num(canvas'.height))
            /\ bodies' = <<WallBody(1), WallBody(2), WallBody(3), WallBody(4)>>
            /\ worldBodies' = <<1, 2, 3, 4>>
            /\ constraints' = <<MouseConstraint>>
            /\ worldConstraints' = <<1>>
            /\ tnodes' = <<>> /\ layout' = EmptyMap
            /\ nodes' = <<>> /\ nodeBodies' = <<>>
            /\ root' = 0 /\ rootPin' = 0
            /\ tickHandlers' = tickHandlers + 1
            /\ treeListeners' = treeListeners + 1
            \* scene.buildTree({adjacency, rootId})
            /\ depth' = MapSet(EmptyMap, rootId, 0)
            /\ q' = <<rootId>>
            /\ counts' = EmptyMap /\ idxByDepth' = EmptyMap /\ bodyCache' = EmptyMap
            /\ stack' = <<>> /\ ret' = 0
            /\ pc' = "bfs"
            /\ UNCHANGED <<mounted, attached, container, adjacency, rootPinPointA, force>>
       ELSE UNCHANGED <<mounted, attached, started, appListeners, treeListeners,
                        tickHandlers, makeTreeCalls, container, canvas, render, pc,
                        localVars, heapVars, sceneVars, force>>
    /\ UNCHANGED simVars

\* The cleanup the effect returned: window.removeEventListener('resize', handleResize)
RunCleanup == IF cleanupFn = "remove" THEN appListeners - 1 ELSE appListeners

\* React runs the effect's cleanup while the canvas stays in the document
\* (a development re-run of effects); the effect then runs again.
EffectCleanup ==
    /\ mounted /\ effectActive /\ Quiescent
    /\ appListeners' = RunCleanup
    /\ effectActive' = FALSE
    /\ cleanupFn' = "none"
    /\ UNCHANGED <<mounted, attached, started, treeListeners, tickHandlers,
                   makeTreeCalls, container, canvas, render, pc, localVars, heapVars,
                   sceneVars, force>>
    /\ UNCHANGED simVars

\* React unmounts App: the cleanup runs and the canvas leaves the document.
Unmount ==
    /\ mounted /\ effectActive /\ Quiescent
    /\ appListeners' = RunCleanup
    /\ effectActive' = FALSE
    /\ cleanupFn' = "none"
    /\ mounted' = FALSE
    /\ attached' = FALSE
    /\ container' = DetachedContainer
    /\ UNCHANGED <<started, treeListeners, tickHandlers, makeTreeCalls, canvas, render,
                   pc, localVars, heapVars, sceneVars, force>>
    /\ UNCHANGED simVars

\* (mutant) the resize handler pins the root anew instead of moving the pin
SceneResizeNewPin(c, cv, hasParent) ==
    IF hasParent /\ rootPin /= 0
    THEN [canvas |-> SizedCanvas(c),
          render |-> RenderFor(InnerWidth(c), InnerHeight(c)),
          pin |-> PinAtResize(SizedCanvas(c)),
          constraints |-> Append(constraints, constraints[rootPin]),
          worldConstraints |-> Append(worldConstraints, Len(constraints) + 1),
          rootPin |-> Len(constraints) + 1]
    ELSE [canvas |-> cv, render |-> render, pin |-> rootPinPointA,
          constraints |-> constraints, worldConstraints |-> worldConstraints,
          rootPin |-> rootPin]

\* The scene's resize handler, run with the canvas at size cv: with a
\* container it resizes the canvas and the renderer and moves the root pin's
\* anchor; it leaves the heap and the world as they are.
SceneResize(c, cv, hasParent) ==
    IF hasParent
    THEN [canvas |-> SizedCanvas(c),
          render |-> RenderFor(InnerWidth(c), InnerHeight(c)),
          pin |-> IF rootPin /= 0 THEN PinAtResize(SizedCanvas(c)) ELSE rootPinPointA,
          constraints |-> constraints, worldConstraints |-> worldConstraints,
          rootPin |-> rootPin]
    ELSE [canvas |-> cv, render |-> render, pin |-> rootPinPointA,
          constraints |-> constraints, worldConstraints |-> worldConstraints,
          rootPin |-> rootPin]

\* A window resize event: the browser lays the container out anew, then the
\* listeners run in the order they were added (App's, then the scene's).
Resize(c) ==
    /\ Quiescent
    /\ LET c1 == IF attached THEN c ELSE container
           cv1 == IF appListeners > 0 THEN SizedCanvas(c1) ELSE canvas
           r == IF treeListeners > 0
                THEN SceneResize(c1, cv1, attached)
                ELSE [canvas |-> cv1, render |-> render, pin |-> rootPinPointA,
                      constraints |-> constraints, worldConstraints |-> worldConstraints,
                      rootPin |-> rootPin]
       IN /\ container' = c1
          /\ canvas' = r.canvas
          /\ render' = r.render
          /\ rootPinPointA' = r.pin
          /\ constraints' = r.constraints
          /\ worldConstraints' = r.worldConstraints
          /\ rootPin' = r.rootPin
    /\ UNCHANGED <<mounted, attached, started, effectActive, cleanupFn, appListeners,
                   treeListeners, tickHandlers, makeTreeCalls, pc, localVars, bodies,
                   tnodes, layout, worldBodies, root, nodes, nodeBodies, force>>
    /\ UNCHANGED simVars

\* ------------------------------------------------- buildTree, step by step

\* q.shift()
QShift(queue) == [p |-> Head(queue), rest |-> Tail(queue)]

\* One turn of `while (q.length)`: dequeue p and visit its children.
BfsStep ==
    /\ pc = "bfs" /\ q /= <<>>
    /\ LET s == QShift(q)
           v == VisitChildren(ChildrenOf(adjacency, s.p), s.p, depth, s.rest)
       IN depth' = v.depth /\ q' = v.q
    /\ UNCHANGED <<appVars, pc, adjacency, counts, idxByDepth, bodyCache, stack, ret,
                   heapVars, sceneVars, force>>
    /\ UNCHANGED simVars

\* The loop has ended: counts per depth, empty idxByDepth and bodyCache; the
\* next step is the call buildRec(rootId).
BfsDone ==
    /\ pc = "bfs" /\ q = <<>>
    /\ counts' = CountsOf(depth)
    /\ idxByDepth' = EmptyMap
    /\ bodyCache' = EmptyMap
    /\ pc' = "build"
    /\ UNCHANGED <<appVars, adjacency, depth, q, stack, ret, heapVars, sceneVars, force>>
    /\ UNCHANGED simVars

Top == stack[Len(stack)]

\* the id the frame is building, and its `children`
FrameId(f) == tnodes[f.node].id.id

FrameChildren(f) == ChildrenOf(adjacency, FrameId(f))

SetHeap(h) ==
    /\ bodies' = h.bodies
    /\ constraints' = h.constraints
    /\ tnodes' = h.tnodes
    /\ worldBodies' = h.worldBodies
    /\ worldConstraints' = h.worldConstraints
    /\ nodeBodies' = h.nodeBodies

\* A call buildRec(id), from buildTree (id = rootId) or from the loop of the
\* frame on top: `new TreeNode(id, getBody(id))` and a frame for it. A call
\* beyond the stack's limit throws (RangeError) out of makeTree and the effect.
BuildRecCall ==
    /\ pc = "build" /\ ret = 0
    /\ IF stack = <<>> THEN TRUE ELSE Top.ci <= Len(FrameChildren(Top))
    /\ LET id == IF stack = <<>> THEN rootId ELSE FrameChildren(Top)[Top.ci]
           g == GetBody(Heap, bodyCache, depth, idxByDepth, layout, canvas, id)
           node == Len(tnodes) + 1
       IN IF Len(stack) >= StackLimit
          THEN /\ pc' = "overflow"
               /\ UNCHANGED <<localVars, heapVars, sceneVars>>
          ELSE /\ SetHeap([g.h EXCEPT !.tnodes = Append(@, TreeNode(MainId(id), g.body))])
               /\ bodyCache' = g.bodyCache
               /\ idxByDepth' = g.idxByDepth
               /\ layout' = g.layout
               /\ stack' = Append(stack, [node |-> node, ci |-> 1])
               /\ UNCHANGED <<pc, adjacency, depth, q, counts, ret, root, nodes, rootPin,
                              rootPinPointA>>
    /\ UNCHANGED <<appVars, force>>
    /\ UNCHANGED simVars

\* `children.length === 0 && depth.get(id) > 0`
IsTerminal(d, id, children) == Len(children) = 0 /\ DepthPositive(d, id)

\* The frame on top has looped over all its children: terminal leaves when
\* it has none and is not at depth 0, then `return node`.
BuildRecFinish ==
    /\ pc = "build" /\ ret = 0 /\ stack /= <<>>
    /\ Top.ci > Len(FrameChildren(Top))
    /\ IF IsTerminal(depth, FrameId(Top), FrameChildren(Top))
       THEN \E numLeaves \in TerminalLeafCounts :
                SetHeap(AddTerminalLeaves(Heap, Top.node, numLeaves))
       ELSE UNCHANGED <<bodies, constraints, tnodes, worldBodies, worldConstraints,
                        nodeBodies>>
    /\ ret' = Top.node
    /\ stack' = SubSeq(stack, 1, Len(stack) - 1)
    /\ UNCHANGED <<appVars, pc, adjacency, depth, q, counts, idxByDepth, bodyCache,
                   layout, root, nodes, rootPin, rootPinPointA, force>>
    /\ UNCHANGED simVars

\* World.add(this.world, cons) for the constraint addChild returned
WorldAddConstraint(h) == [h EXCEPT !.worldConstraints = Append(@, Len(h.constraints))]

\* Back in the caller's loop with `child`: addChild, World.add of the spring,
\* and the leaves between parent and child unless the parent is at depth 0.
BuildRecAttach ==
    /\ pc = "build" /\ ret /= 0 /\ stack /= <<>>
    /\ LET node == Top.node
           h1 == WorldAddConstraint(AddChild(Heap, node, ret, springLength, FALSE))
       IN IF DepthPositive(depth, FrameId(Top))
          THEN \E numLeaves \in LeafCounts :
                   SetHeap(AddLeafNodes(h1, node, ret, numLeaves))
          ELSE SetHeap(h1)
    /\ stack' = [stack EXCEPT ![Len(stack)].ci = @ + 1]
    /\ ret' = 0
    /\ UNCHANGED <<appVars, pc, adjacency, depth, q, counts, idxByDepth, bodyCache,
                   layout, root, nodes, rootPin, rootPinPointA, force>>
    /\ UNCHANGED simVars

\* this.nodeBodies = this.nodes.map((n) => n.body)
NodeBodiesOf(tn, ns) == [i \in 1..Len(ns) |-> tn[ns[i]].body]

\* buildRec(rootId) has returned: the cached bodies enter the world, the root
\* is pinned, and nodes / nodeBodies are filled by the traversal. makeTree
\* returns and the effect returns its cleanup.
BuildTreeFinish ==
    /\ pc = "build" /\ ret /= 0 /\ stack = <<>>
    /\ root' = ret
    /\ worldBodies' = worldBodies \o CacheValues(bodyCache)
    /\ constraints' = Append(constraints, ConstraintCreate(0, tnodes[ret].body, 0, "pin"))
    /\ rootPin' = Len(constraints) + 1
    /\ rootPinPointA' = PinAtBuild(canvas)
    /\ worldConstraints' = Append(worldConstraints, Len(constraints) + 1)
    /\ nodes' = Traverse(tnodes, ret)
    /\ nodeBodies' = NodeBodiesOf(tnodes, nodes')
    /\ ret' = 0
    /\ pc' = "built"
    /\ cleanupFn' = "remove"
    /\ UNCHANGED <<mounted, attached, started, effectActive, appListeners, treeListeners,
                   tickHandlers, makeTreeCalls, container, canvas, render, adjacency,
                   depth, q, counts, idxByDepth, bodyCache, stack, bodies, tnodes, layout,
                   force>>
    /\ UNCHANGED simVars

\* ---------------------------------------------------------------- ticks

\* The constant vertical force of one tick on one list entry, in units of
\* 0.001 * mass: gravity (+1) and the upward force (-2).
ConstantForce == 1 - 2

\* applyForces as the engine's beforeUpdate callback: every entry of
\* nodeBodies receives the per-body forces. The engine clears body forces at
\* the end of each update, so each call starts from zero.
ApplyForces(list) ==
    [b \in SeqRange(list) |-> SeqCount(list, b) * ConstantForce]

Tick ==
    /\ tickHandlers > 0 /\ Quiescent
    /\ force' = ApplyForces(nodeBodies)
    /\ UNCHANGED <<appVars, pc, localVars, heapVars, sceneVars>>
    /\ UNCHANGED simVars

\* ------------------------------------------------------------------ Spec

Next ==
    \/ EffectRun
    \/ EffectCleanup
    \/ Unmount
    \/ \E c \in Containers : Resize(c)
    \/ BfsStep
    \/ BfsDone
    \/ BuildRecCall
    \/ BuildRecFinish
    \/ BuildRecAttach
    \/ BuildTreeFinish
    \/ Tick

Spec == Init /\ [][Next]_vars

\* A statement of buildTree, from its breadth-first loop to its return.
BuildStep ==
    \/ BfsStep
    \/ BfsDone
    \/ BuildRecCall
    \/ BuildRecFinish
    \/ BuildRecAttach
    \/ BuildTreeFinish

\* The program with its scheduling: buildTree is synchronous code, so while
\* it has a next statement the engine executes it.
SpecLive == Spec /\ WF_vars(BuildStep)

\* ------------------------------------------- buildTree over any depth map

\* The greatest depth value a drawn depth map gives an id.
MaxSeedDepth == 1

\* The state buildTree is in when its breadth-first loop has ended, with the
\* depth map replaced by any map over the reachable ids: what the rest of
\* buildTree does with the depth values, whatever they are.
InitDepth ==
    /\ mounted = TRUE /\ attached = TRUE
    /\ started = DatasetString(1) /\ effectActive = TRUE /\ cleanupFn = "none"
    /\ appListeners = 1 /\ treeListeners = 1 /\ tickHandlers = 1
    /\ makeTreeCalls = 1
    /\ container = InitialContainer
    /\ canvas = SizedCanvas(InitialContainer)
    /\ render = RenderFor(Num(canvas.width), Num(canvas.height))
    /\ pc = "build"
    /\ adjacency \in Adjacencies
    /\ depth \in [Reachable(adjacency) -> 0..MaxSeedDepth]
    /\ q = <<>> /\ counts = CountsOf(depth) /\ idxByDepth = EmptyMap
    /\ bodyCache = EmptyMap /\ stack = <<>> /\ ret = 0
    /\ bodies = <<WallBody(1), WallBody(2), WallBody(3), WallBody(4)>>
    /\ constraints = <<MouseConstraint>> /\ tnodes = <<>> /\ layout = EmptyMap
    /\ worldBodies = <<1, 2, 3, 4>> /\ worldConstraints = <<1>>
    /\ root = 0 /\ nodes = <<>> /\ nodeBodies = <<>>
    /\ rootPin = 0 /\ rootPinPointA = [x |-> 0, y |-> 0]
    /\ force = EmptyMap
    /\ SimOff

NextDepth ==
    \/ BuildRecCall
    \/ BuildRecFinish
    \/ BuildRecAttach
    \/ BuildTreeFinish

SpecDepth == InitDepth /\ [][NextDepth]_vars

\* ------------------------------------- applyForces, statement by statement

\* The longest body list a followed call is given.
MaxList == 3

\* CFG.repulsion
repulsionK == 1

repulsionMin == 26

repulsionMax == 240

\* the handles of the bodies a followed call can be given
SimBodies == {11, 12, 13}

\* Where a body can be when the call starts. From the first point the others
\* are 10 (closer than min), 240 (exactly max) and a little more than 240
\* away; the last is off the axis and within max of the second.
Points ==
    { [x |-> 400, y |-> 200], [x |-> 410, y |-> 200], [x |-> 640, y |-> 200],
      [x |-> 640, y |-> 220] }

\* the lists applyForces can find in nodeBodies: a body is listed once per
\* TreeNode that refers to it
BodyLists == UNION {[1..n -> SimBodies] : n \in 0..MaxList}

\* The scene as its constructor leaves it, with the body list, the bodies'
\* positions and velocities drawn, at the start of a call of applyForces.
\* The call reads nodeBodies, the bodies and the canvas size, nothing else.
InitForces ==
    /\ mounted = TRUE /\ attached = TRUE
    /\ started = DatasetString(1) /\ effectActive = TRUE /\ cleanupFn = "remove"
    /\ appListeners = 1 /\ treeListeners = 1 /\ tickHandlers = 1
    /\ makeTreeCalls = 1
    /\ container = InitialContainer
    /\ canvas = SizedCanvas(InitialContainer)
    /\ render = RenderFor(Num(canvas.width), Num(canvas.height))
    /\ pc = "built"
    /\ adjacency = EmptyMap
    /\ depth = EmptyMap /\ q = <<>> /\ counts = EmptyMap /\ idxByDepth = EmptyMap
    /\ bodyCache = EmptyMap /\ stack = <<>> /\ ret = 0
    /\ bodies = <<WallBody(1), WallBody(2), WallBody(3), WallBody(4)>>
    /\ constraints = <<MouseConstraint>> /\ tnodes = <<>> /\ layout = EmptyMap
    /\ worldBodies = <<1, 2, 3, 4>> /\ worldConstraints = <<1>>
    /\ root = 0 /\ nodes = <<>>
    /\ nodeBodies \in BodyLists
    /\ rootPin = 0 /\ rootPinPointA = [x |-> 0, y |-> 0]
    /\ force = EmptyMap
    /\ simPc = "gravity" /\ fi = 0 /\ fj = 0
    /\ position \in [SimBodies -> Points]
    /\ velocity = [b \in SimBodies |-> [x |-> 1, y |-> -1, den |-> 1]]
    /\ bodyForce = [b \in SimBodies |-> [constY |-> 0, pullX |-> 0, pullY |-> 0]]
    /\ pairsSeen = <<>> /\ repLog = <<>>

\* v * CFG.velocityDamping, n times over: 0.95 as 95 / 100
RECURSIVE Damped(_, _)
Damped(v, n) ==
    IF n = 0 THEN v
    ELSE Damped([x |-> v.x * 95, y |-> v.y * 95, den |-> v.den * 100], n - 1)

\* Each `for (const b of list)` loop acts once per list entry, so a body
\* listed n times is acted on n times.

\* 1) gravity: Body.applyForce(b, b.position, {x: 0, y: CFG.gravity * b.mass}),
\* in units of 0.001 * mass
SimGravity ==
    /\ simPc = "gravity"
    /\ bodyForce' = [b \in SimBodies |->
                        [bodyForce[b] EXCEPT !.constY = @ + SeqCount(nodeBodies, b)]]
    /\ simPc' = "upward"
    /\ UNCHANGED <<mainVars, fi, fj, position, velocity, pairsSeen, repLog>>

\* 2) upward force: {x: 0, y: -CFG.upwardForce * b.mass}; then `let i = 0`
\* and, when the list is not empty, `let j = i + 1`
SimUpward ==
    /\ simPc = "upward"
    /\ bodyForce' = [b \in SimBodies |->
                        [bodyForce[b] EXCEPT !.constY = @ - 2 * SeqCount(nodeBodies, b)]]
    /\ simPc' = "repulsion"
    /\ fi' = 1 /\ fj' = 2
    /\ UNCHANGED <<mainVars, position, velocity, pairsSeen, repLog>>

\* clamped * clamped for clamped = Math.max(r, min), given r * r
ClampedSquare(r2) == Max2(r2, repulsionMin * repulsionMin)

\* The body of the inner loop for list entries i and j: no force at distance
\* 0 or beyond max, otherwise the two Body.applyForce calls. A force is kept
\* as [dx, dy, r2, c2] for the vector (dx, dy) / sqrt(r2) * k / c2.
RepulsionPair(list, pos, i, j) ==
    LET A == list[i]
        B == list[j]
        dx == pos[B].x - pos[A].x
        dy == pos[B].y - pos[A].y
        r2 == dx * dx + dy * dy
        c2 == ClampedSquare(r2)
    IN IF r2 = 0 THEN <<>>
       ELSE IF r2 > repulsionMax * repulsionMax THEN <<>>
       ELSE << [i |-> i, j |-> j, body |-> A, dx |-> -dx, dy |-> -dy, r2 |-> r2, c2 |-> c2],
               [i |-> i, j |-> j, body |-> B, dx |-> dx, dy |-> dy, r2 |-> r2, c2 |-> c2] >>

\* one turn of `for (let j = i + 1; j < list.length; j++)`
SimRepulsionPair ==
    /\ simPc = "repulsion"
    /\ fi <= Len(nodeBodies) /\ fj <= Len(nodeBodies)
    /\ pairsSeen' = Append(pairsSeen, <<fi, fj>>)
    /\ repLog' = repLog \o RepulsionPair(nodeBodies, position, fi, fj)
    /\ fj' = fj + 1
    /\ UNCHANGED <<mainVars, simPc, fi, position, velocity, bodyForce>>

\* the inner loop has ended: i++ and the next `let j = i + 1`
SimRepulsionNext ==
    /\ simPc = "repulsion"
    /\ fi <= Len(nodeBodies) /\ fj > Len(nodeBodies)
    /\ fi' = fi + 1 /\ fj' = fi + 2
    /\ UNCHANGED <<mainVars, simPc, position, velocity, bodyForce, pairsSeen, repLog>>

\* the outer loop has ended
SimRepulsionEnd ==
    /\ simPc = "repulsion"
    /\ fi > Len(nodeBodies)
    /\ simPc' = "center"
    /\ UNCHANGED <<mainVars, fi, fj, position, velocity, bodyForce, pairsSeen, repLog>>

\* 4) centre pull: (this.center - b.position) * CFG.centerPull, in units of
\* 0.000001; the centre is half the canvas size
SimCenterPull ==
    /\ simPc = "center"
    /\ bodyForce' = [b \in SimBodies |->
           [bodyForce[b] EXCEPT
               !.pullX = @ + SeqCount(nodeBodies, b) * (center(canvas).x2 \div 2 - position[b].x),
               !.pullY = @ + SeqCount(nodeBodies, b) * (center(canvas).y2 \div 2 - position[b].y)]]
    /\ simPc' = "damping"
    /\ UNCHANGED <<mainVars, fi, fj, position, velocity, pairsSeen, repLog>>

\* 5) damping: Body.setVelocity(b, velocity * CFG.velocityDamping), 0.95 as 95 / 100
SimDamping ==
    /\ simPc = "damping"
    /\ velocity' = [b \in SimBodies |-> Damped(velocity[b], SeqCount(nodeBodies, b))]
    /\ simPc' = "done"
    /\ UNCHANGED <<mainVars, fi, fj, position, bodyForce, pairsSeen, repLog>>

NextForces ==
    \/ SimGravity
    \/ SimUpward
    \/ SimRepulsionPair
    \/ SimRepulsionNext
    \/ SimRepulsionEnd
    \/ SimCenterPull
    \/ SimDamping

SpecForces == InitForces /\ [][NextForces]_vars

\* the TreeNodes of the built tree that carry the tree node id `id`
NodesWithId(id) == {i \in 1..Len(nodes) : tnodes[nodes[i]].id = MainId(id)}

\* ----------------------------------------------------------------- claims

\* C1: when the breadth-first loop has ended, the ids that have a depth are
\* exactly the ids reachable from the root, and each one's depth is the
\* number of edges of a shortest path from the root (0 for the root).
C1_DepthIsShortestDistance ==
    BfsOver =>
        /\ DOMAIN depth = Reachable(adjacency)
        /\ depth[rootId] = 0
        /\ \A id \in DOMAIN depth : depth[id] = Distance(adjacency, id)

\* C1 witness: the loop has ended on a graph where an id at depth 1 is also
\* the child of another node at depth 1, so that a longer path to it exists.
C1_Witness ==
    /\ BfsOver
    /\ \E p \in DOMAIN depth, c \in DOMAIN depth :
           /\ depth[p] = 1 /\ depth[c] = 1 /\ p /= c
           /\ c \in SeqRange(ChildrenOf(adjacency, p))

\* C2 (as claimed): after buildTree every id reachable from the root is the
\* id of exactly one node of the node list.
C2_EachReachableIdOnce ==
    pc = "built" => \A id \in Reachable(adjacency) : Cardinality(NodesWithId(id)) = 1

\* C2: a reachable id that is a child twice over has two nodes in the list
\* (the state the claim's counterexample ends in).
C2_SharedIdListedTwice ==
    /\ pc = "built"
    /\ \E id \in Reachable(adjacency) : Cardinality(NodesWithId(id)) > 1

\* C3: makeTree is called at most once for the canvas, whatever the sequence
\* of effect runs and cleanups.
C3_MakeTreeAtMostOnce == makeTreeCalls <= 1

\* C3 witness: makeTree has returned and the effect has run again after a
\* cleanup (only a run that skips the guarded block leaves no cleanup behind).
C3_Witness ==
    /\ pc = "built" /\ makeTreeCalls = 1
    /\ effectActive /\ cleanupFn = "none" /\ Truthy(started)

\* the main bodies made for an id
BodiesOf(id) ==
    {b \in 1..Len(bodies) : bodies[b].kind = "node" /\ bodies[b].label = MainId(id)}

\* C4: after buildTree every id reachable from the root has exactly one main
\* body, every TreeNode of that id (there is at least one) refers to it, and
\* it is in the world exactly once.
C4_OneBodyPerNode ==
    pc = "built" =>
        \A id \in Reachable(adjacency) :
            /\ Cardinality(BodiesOf(id)) = 1
            /\ \E n \in 1..Len(tnodes) : tnodes[n].id = MainId(id)
            /\ \A n \in 1..Len(tnodes) :
                   tnodes[n].id = MainId(id) => tnodes[n].body \in BodiesOf(id)
            /\ \A b \in BodiesOf(id) : SeqCount(worldBodies, b) = 1

\* C4 witness: a built tree in which buildRec visited some id twice.
C4_Witness ==
    /\ pc = "built"
    /\ \E n1, n2 \in 1..Len(tnodes) :
           n1 /= n2 /\ tnodes[n1].id = tnodes[n2].id /\ tnodes[n1].id.tag = ""

\* the branch springs that are in the world
WorldSprings == {c \in SeqRange(worldConstraints) : constraints[c].kind = "spring"}

IsMainNode(n) == tnodes[n].id.tag = ""

\* C5: for a tree-shaped adjacency, after buildTree (a) every branch spring
\* was added to the world exactly once, (b) every reachable parent -> child
\* edge has exactly one branch spring in the world from the parent's body to
\* the child's, and there are as many branch springs as edges, (c) in every
\* node, edges[i] is the constraint from the node's body to the body of
\* children[i], a branch spring exactly when children[i] is a tree node.
C5_SpringsMirrorEdges ==
    (pc = "built" /\ TreeShaped(adjacency)) =>
        /\ \A c \in 1..Len(constraints) :
               constraints[c].kind = "spring" => SeqCount(worldConstraints, c) = 1
        /\ \A e \in ReachableEdges(adjacency) :
               Cardinality({c \in WorldSprings :
                   /\ constraints[c].bodyA = bodyCache[e[1]]
                   /\ constraints[c].bodyB = bodyCache[ChildrenOf(adjacency, e[1])[e[2]]]}) = 1
        /\ Cardinality(WorldSprings) = Cardinality(ReachableEdges(adjacency))
        /\ \A n \in 1..Len(tnodes) :
               /\ Len(tnodes[n].edges) = Len(tnodes[n].children)
               /\ \A i \in 1..Len(tnodes[n].children) :
                      LET c == constraints[tnodes[n].edges[i]]
                          ch == tnodes[n].children[i]
                      IN /\ c.bodyA = tnodes[n].body
                         /\ c.bodyB = tnodes[ch].body
                         /\ (c.kind = "spring") = IsMainNode(ch)
                         /\ tnodes[n].edges[i] \in SeqRange(worldConstraints)

\* C5 witness: a built tree-shaped input with a node whose children list
\* holds a tree node, then leaves, then another tree node.
C5_Witness ==
    /\ pc = "built" /\ TreeShaped(adjacency)
    /\ \E n \in 1..Len(tnodes) : \E i, j, k \in 1..Len(tnodes[n].children) :
           /\ i < j /\ j < k
           /\ IsMainNode(tnodes[n].children[i])
           /\ ~IsMainNode(tnodes[n].children[j])
           /\ IsMainNode(tnodes[n].children[k])

\* C6: once buildTree has returned, no step (a tick, a resize, an effect
\* run or cleanup) changes the node list, the force body list, any node's
\* children or edges, the bodies, the constraints, or what is in the world.
C6_BuiltStructureFrozen ==
    [][pc = "built" =>
          UNCHANGED <<pc, root, nodes, nodeBodies, tnodes, bodies, constraints,
                      worldBodies, worldConstraints, rootPin>>]_vars

\* C6 witness: after the build, a resize has moved the pin's anchor and a
\* tick has applied forces to the bodies of the list.
C6_Witness ==
    /\ pc = "built"
    /\ rootPinPointA = PinAtResize(canvas) /\ rootPinPointA /= PinAtBuild(canvas)
    /\ DOMAIN force = SeqRange(nodeBodies) /\ nodeBodies /= <<>>

\* the kind of child: "" for a tree node, "leaf_" or "terminal_leaf_"
ChildTag(n, i) == tnodes[tnodes[n].children[i]].id.tag

\* how many children of n right after index i carry the tag
RECURSIVE RunLength(_, _, _)
RunLength(n, i, tag) ==
    IF i + 1 <= Len(tnodes[n].children) /\ ChildTag(n, i + 1) = tag
    THEN 1 + RunLength(n, i + 1, tag)
    ELSE 0

ChildrenTagged(n, tag) == {i \in 1..Len(tnodes[n].children) : ChildTag(n, i) = tag}

\* the constraints that end at body b / start at body b
ConstraintsTo(b) == {c \in 1..Len(constraints) : constraints[c].bodyB = b}

ConstraintsFrom(b) == {c \in 1..Len(constraints) : constraints[c].bodyA = b}

\* C10: after buildTree, (a) a node at depth 0 has no decorative leaf;
\* (b) in a node at depth > 0 every tree-node child is followed by 2 to 4
\* leaves of that node and there are no other `leaf_` children; (c) a node at
\* depth > 0 without children in the adjacency has 3 to 6 terminal leaves and
\* nothing else, and no other node has terminal leaves; (d) a leaf has no
\* children, its body is the end of exactly one constraint, a leaf spring
\* from the body of the node it decorates, and is the start of none; the body
\* and that constraint are in the world exactly once.
C10_LeafRule ==
    pc = "built" =>
        /\ \A n \in 1..Len(tnodes) :
               IF IsMainNode(n)
               THEN LET id == tnodes[n].id.id
                        main == ChildrenTagged(n, "")
                        leaf == ChildrenTagged(n, "leaf_")
                        term == ChildrenTagged(n, "terminal_leaf_")
                    IN /\ depth[id] = 0 => (leaf = {} /\ term = {})
                       /\ depth[id] > 0 =>
                              /\ \A i \in main : RunLength(n, i, "leaf_") \in 2..4
                              /\ \A j \in leaf : j > 1 /\ ChildTag(n, j - 1) \in {"", "leaf_"}
                              /\ IF ChildrenOf(adjacency, id) = <<>>
                                 THEN /\ Cardinality(term) \in 3..6
                                      /\ Cardinality(term) = Len(tnodes[n].children)
                                 ELSE term = {}
                       /\ \A i \in leaf \cup term :
                              /\ tnodes[tnodes[n].children[i]].id.id = id
                              /\ constraints[tnodes[n].edges[i]].kind = "leafSpring"
               ELSE tnodes[n].children = <<>>
        /\ \A b \in 1..Len(bodies) :
               bodies[b].kind = "leaf" =>
                   /\ Cardinality(ConstraintsTo(b)) = 1
                   /\ ConstraintsFrom(b) = {}
                   /\ SeqCount(worldBodies, b) = 1
                   /\ \A c \in ConstraintsTo(b) :
                          /\ constraints[c].kind = "leafSpring"
                          /\ SeqCount(worldConstraints, c) = 1
                          /\ \E n \in 1..Len(tnodes) : \E i \in 1..Len(tnodes[n].children) :
                                 /\ tnodes[n].edges[i] = c
                                 /\ tnodes[n].body = constraints[c].bodyA
                                 /\ tnodes[tnodes[n].children[i]].body = b

\* C10 witness: a built tree whose root has a child edge, with a deeper
\* parent that got leaves for a child edge and a childless node that got
\* terminal leaves.
C10_Witness ==
    /\ pc = "built"
    /\ ChildrenTagged(root, "") /= {}
    /\ \E n \in 1..Len(tnodes) : Cardinality(ChildrenTagged(n, "")) = 2
                                 /\ ChildrenTagged(n, "leaf_") /= {}
    /\ \E n \in 1..Len(tnodes) : ChildrenTagged(n, "terminal_leaf_") /= {}

\* the depth map the breadth-first loop computes for the adjacency
BfsDepth == [id \in Reachable(adjacency) |-> Distance(adjacency, id)]

\* the tree nodes that got decorative leaves
Decorated ==
    {n \in 1..Len(tnodes) :
        IsMainNode(n) /\ ChildrenTagged(n, "leaf_") \cup ChildrenTagged(n, "terminal_leaf_") /= {}}

\* the tree nodes that get decorative leaves under the depth map d
DecoratedUnder(d) ==
    {n \in 1..Len(tnodes) : IsMainNode(n) /\ d[tnodes[n].id.id] > 0}

\* the ids of the tree nodes of the node list, in order
RECURSIVE MainIdsOf(_)
MainIdsOf(ns) ==
    IF ns = <<>> THEN <<>>
    ELSE (IF IsMainNode(Head(ns)) THEN <<tnodes[Head(ns)].id.id>> ELSE <<>>)
         \o MainIdsOf(Tail(ns))

\* the pre-order unfolding of the adjacency from an id (for an adjacency
\* whose unfolding is finite, which a built tree's is)
RECURSIVE Unfold(_, _)
RECURSIVE UnfoldAll(_, _)
Unfold(adj, id) == <<id>> \o UnfoldAll(adj, ChildrenOf(adj, id))

UnfoldAll(adj, cs) ==
    IF cs = <<>> THEN <<>> ELSE Unfold(adj, Head(cs)) \o UnfoldAll(adj, Tail(cs))

\* C7 (as claimed): whatever depth values the ids have, buildTree creates
\* the same nodes, bodies and constraints: the nodes that get decorative
\* leaves are those that get them under the breadth-first depths.
C7_StructureIgnoresDepth ==
    pc = "built" => Decorated = DecoratedUnder(BfsDepth)

\* C7 (amended): whatever depth values the ids have, (a) the tree nodes of
\* the node list are the pre-order unfolding of the adjacency, one main body
\* per reachable id and one branch spring per tree node but the root; (b) a
\* main body is seeded at y = height - 120 - 90 * depth; (c) the nodes that
\* get decorative leaves are exactly those whose depth value is above 0.
C7_DepthSeedsAndGatesLeaves ==
    pc = "built" =>
        /\ MainIdsOf(nodes) = Unfold(adjacency, rootId)
        /\ \A id \in Reachable(adjacency) : Cardinality(BodiesOf(id)) = 1
        /\ Cardinality({c \in 1..Len(constraints) : constraints[c].kind = "spring"})
               = Len(Unfold(adjacency, rootId)) - 1
        /\ \A id \in Reachable(adjacency) : \A b \in BodiesOf(id) :
               layout[b].y = canvas.height - 120 - 90 * depth[id]
        /\ Decorated = DecoratedUnder(depth)

\* C7 witness: a build, under a depth map that puts the root above depth 0
\* and a child of the root at depth 0, in which the root got leaves and the
\* child none.
C7_Witness ==
    /\ pc = "built"
    /\ depth[rootId] > 0 /\ root \in Decorated
    /\ \E i \in ChildrenTagged(root, "") :
           /\ depth[tnodes[tnodes[root].children[i]].id.id] = 0
           /\ tnodes[root].children[i] \notin Decorated

RepulsionOver == simPc \in {"center", "damping", "done"}

\* the squared distance of list entries i and j
Dist2(i, j) ==
    LET a == position[nodeBodies[i]]
        b == position[nodeBodies[j]]
    IN (b.x - a.x) * (b.x - a.x) + (b.y - a.y) * (b.y - a.y)

\* the applyForce calls the loop made for entries i and j
CallsFor(i, j) == {n \in 1..Len(repLog) : repLog[n].i = i /\ repLog[n].j = j}

\* the sum of a component of the logged forces that share a length factor
\* k / (sqrt(r2) * c2); the forces sum to zero when every such sum is 0
RECURSIVE SumDx(_, _, _)
SumDx(log, r2, c2) ==
    IF log = <<>> THEN 0
    ELSE (IF Head(log).r2 = r2 /\ Head(log).c2 = c2 THEN Head(log).dx ELSE 0)
         + SumDx(Tail(log), r2, c2)

RECURSIVE SumDy(_, _, _)
SumDy(log, r2, c2) ==
    IF log = <<>> THEN 0
    ELSE (IF Head(log).r2 = r2 /\ Head(log).c2 = c2 THEN Head(log).dy ELSE 0)
         + SumDy(Tail(log), r2, c2)

\* What the loop does per pair of list ENTRIES: when it has ended, (a) its
\* body has run exactly once for every pair of entries i < j and for nothing
\* else; (b) a pair at distance 0 or beyond max got no force; (c) any other
\* pair got two forces, one on each body, each the negation of the other,
\* each pointing away from the other body, of magnitude k / max(r, min)^2,
\* which is at most k / min^2; (d) the forces of the loop sum to zero.
RepulsionPerEntryPair ==
    RepulsionOver =>
        /\ \A i, j \in 1..Len(nodeBodies) :
               SeqCount(pairsSeen, <<i, j>>) = IF i < j THEN 1 ELSE 0
        /\ 2 * Len(pairsSeen) = Len(nodeBodies) * (Len(nodeBodies) - 1)
        /\ \A n \in 1..Len(repLog) : repLog[n].i < repLog[n].j
        /\ \A i, j \in 1..Len(nodeBodies) :
               i < j =>
                   IF Dist2(i, j) = 0 \/ Dist2(i, j) > repulsionMax * repulsionMax
                   THEN CallsFor(i, j) = {}
                   ELSE \E n, m \in CallsFor(i, j) :
                            LET fa == repLog[n]
                                fb == repLog[m]
                                pa == position[nodeBodies[i]]
                                pb == position[nodeBodies[j]]
                            IN /\ CallsFor(i, j) = {n, m} /\ n /= m
                               /\ fa.body = nodeBodies[i] /\ fb.body = nodeBodies[j]
                               /\ fa.dx = -fb.dx /\ fa.dy = -fb.dy
                               /\ fa.r2 = fb.r2 /\ fa.c2 = fb.c2
                               \* unit direction, away from the other body
                               /\ fb.dx * fb.dx + fb.dy * fb.dy = fb.r2
                               /\ fb.dx * (pb.x - pa.x) + fb.dy * (pb.y - pa.y) > 0
                               /\ fa.dx * (pa.x - pb.x) + fa.dy * (pa.y - pb.y) > 0
                               \* magnitude k / c2 with c2 = max(r, min)^2
                               /\ fb.r2 = Dist2(i, j)
                               /\ fb.c2 = IF Dist2(i, j) >= repulsionMin * repulsionMin
                                          THEN Dist2(i, j)
                                          ELSE repulsionMin * repulsionMin
                               /\ fb.c2 >= repulsionMin * repulsionMin
        /\ \A n \in 1..Len(repLog) :
               /\ SumDx(repLog, repLog[n].r2, repLog[n].c2) = 0
               /\ SumDy(repLog, repLog[n].r2, repLog[n].c2) = 0

\* the turns of the inner loop that paired bodies a and b
TurnsFor(a, b) ==
    {n \in 1..Len(pairsSeen) :
        {nodeBodies[pairsSeen[n][1]], nodeBodies[pairsSeen[n][2]]} = {a, b}}

\* the applyForce calls the loop made for the pair of bodies a and b
CallsForBodies(a, b) ==
    {n \in 1..Len(repLog) :
        {nodeBodies[repLog[n].i], nodeBodies[repLog[n].j]} = {a, b}}

BodyDist2(a, b) ==
    (position[b].x - position[a].x) * (position[b].x - position[a].x)
    + (position[b].y - position[a].y) * (position[b].y - position[a].y)

\* C9: when the repulsion loop of a tick has ended, every unordered pair of
\* distinct bodies in nodeBodies has been considered exactly once; a pair at
\* distance 0 or beyond max got no force; any other pair got one force on
\* each body, each the negation of the other, pointing away from the other
\* body, of magnitude k / max(r, min)^2 <= k / min^2; and the forces of the
\* loop sum to zero.
C9_RepulsionPerBodyPair ==
    RepulsionOver =>
        /\ \A a, b \in SeqRange(nodeBodies) :
               a /= b =>
                   /\ Cardinality(TurnsFor(a, b)) = 1
                   /\ IF BodyDist2(a, b) = 0
                         \/ BodyDist2(a, b) > repulsionMax * repulsionMax
                      THEN CallsForBodies(a, b) = {}
                      ELSE \E n, m \in CallsForBodies(a, b) :
                               LET fa == repLog[n]
                                   fb == repLog[m]
                               IN /\ CallsForBodies(a, b) = {n, m} /\ n /= m
                                  /\ fa.body = a /\ fb.body = b
                                  /\ fa.dx = -fb.dx /\ fa.dy = -fb.dy
                                  /\ fa.r2 = fb.r2 /\ fa.c2 = fb.c2
                                  /\ fb.dx * fb.dx + fb.dy * fb.dy = fb.r2
                                  /\ fb.dx * (position[b].x - position[a].x)
                                     + fb.dy * (position[b].y - position[a].y) > 0
                                  /\ fb.r2 = BodyDist2(a, b)
                                  /\ fb.c2 = Max2(BodyDist2(a, b),
                                                  repulsionMin * repulsionMin)
        /\ \A n \in 1..Len(repLog) :
               /\ SumDx(repLog, repLog[n].r2, repLog[n].c2) = 0
               /\ SumDy(repLog, repLog[n].r2, repLog[n].c2) = 0

\* The case that breaks C9: a finished call on a list that names one body
\* twice, as buildTree leaves it for an id with two parents (C2), and
\* another body within max of it: that pair of bodies was paired twice.
C9_BodyPairedTwice ==
    /\ simPc = "done"
    /\ \E a, b \in SeqRange(nodeBodies) :
           /\ a /= b /\ SeqCount(nodeBodies, a) = 2
           /\ Cardinality(TurnsFor(a, b)) = 2
           /\ Cardinality(CallsForBodies(a, b)) = 4

\* C11: once the root is pinned, the pin's anchor is at the horizontal centre
\* of the canvas and 100 pixels above its bottom edge, for the canvas size of
\* the moment, whatever resize events have been delivered.
C11_RootPinNearBottom ==
    rootPin /= 0 => rootPinPointA = PinAtBuild(canvas)

\* The case that breaks C11: a resize event has reached the built scene and
\* its handler has put the anchor at (center.x, center.y * 1.25), which is
\* not 100 pixels above the bottom edge of the canvas.
C11_PinMovedByResize ==
    /\ pc = "built" /\ rootPin /= 0
    /\ rootPinPointA = PinAtResize(canvas)
    /\ rootPinPointA.x = PinAtBuild(canvas).x
    /\ rootPinPointA.y /= PinAtBuild(canvas).y

\* the bodies in the world that are not walls
NonWallBodies == {b \in SeqRange(worldBodies) : bodies[b].kind /= "wall"}

\* C12: after buildTree, nodeBodies is the list of the bodies of this.nodes,
\* in the same order, which is the pre-order from the root; it holds every
\* body of the world that is not a wall and holds each exactly once; and a
\* tick has given each listed body the per-body forces exactly once.
C12_NodeBodiesEachOnce ==
    pc = "built" =>
        /\ nodes = Traverse(tnodes, root)
        /\ nodeBodies = [i \in 1..Len(nodes) |-> tnodes[nodes[i]].body]
        /\ SeqRange(nodeBodies) = NonWallBodies
        /\ \A b \in NonWallBodies : SeqCount(nodeBodies, b) = 1
        /\ \A b \in DOMAIN force : force[b] = ConstantForce

\* The case that breaks C12: a built scene in which an id with two TreeNodes
\* (C2) has its one body listed twice, and a tick has applied the per-body
\* forces to that body twice.
C12_BodyListedTwice ==
    /\ pc = "built"
    /\ \E b \in NonWallBodies :
           /\ SeqCount(nodeBodies, b) = 2
           /\ Cardinality({n \in SeqRange(nodes) : tnodes[n].body = b}) = 2
           /\ b \in DOMAIN force /\ force[b] = 2 * ConstantForce

\* C13: after buildTree, the nodes of the node list have pairwise distinct
\* identifiers, and their bodies' labels are those identifiers.
C13_NodeIdsDistinct ==
    pc = "built" =>
        /\ \A i, j \in 1..Len(nodes) :
               i /= j => tnodes[nodes[i]].id /= tnodes[nodes[j]].id
        /\ \A i \in 1..Len(nodes) :
               bodies[tnodes[nodes[i]].body].label = tnodes[nodes[i]].id

\* The case that breaks C13: a tree-shaped input whose built tree has a node
\* with two children, each followed by its own leaves, and two of those
\* leaves (different nodes, different bodies) carry the same identifier.
C13_LeafIdRepeatedInTree ==
    /\ pc = "built" /\ TreeShaped(adjacency)
    /\ \E n \in SeqRange(nodes) :
           /\ Cardinality(ChildrenTagged(n, "")) = 2
           /\ \E i, j \in ChildrenTagged(n, "leaf_") :
                  /\ i /= j
                  /\ tnodes[n].children[i] /= tnodes[n].children[j]
                  /\ tnodes[tnodes[n].children[i]].body /= tnodes[tnodes[n].children[j]].body
                  /\ tnodes[tnodes[n].children[i]].id = tnodes[tnodes[n].children[j]].id

\* the ids at least one and at most k edges away from the ids of S
RECURSIVE DescendantsWithin(_, _, _)
DescendantsWithin(adj, S, k) ==
    IF k = 0 THEN {}
    ELSE Successors(adj, S) \cup DescendantsWithin(adj, Successors(adj, S), k - 1)

\* some id reachable from the root lies on a cycle
Cyclic(adj) ==
    \E id \in Reachable(adj) : id \in DescendantsWithin(adj, {id}, Cardinality(AllIds))

\* the breadth-first loop puts an id into the queue only when the id has no
\* depth yet, and puts it there once
BfsEnqueuesOnce ==
    [][pc = "bfs" =>
          \A id \in AllIds :
              SeqCount(q', id) > SeqCount(q, id) =>
                  /\ ~MapHas(depth, id) /\ MapHas(depth', id)
                  /\ SeqCount(q', id) = 1]_vars

\* the breadth-first loop ends, with its queue empty
BfsEmptiesQueue == (pc = "bfs") ~> (pc = "build" /\ q = <<>>)

\* the recursive instantiation returns and buildTree with it
BuildRecReturns == (pc = "build") ~> (pc = "built")

\* C14: for every adjacency and root id buildTree terminates: the
\* breadth-first loop enqueues each id at most once and empties its queue,
\* and buildRec(rootId) returns after finitely many calls.
C14_BuildTreeTerminates ==
    /\ BfsEnqueuesOnce
    /\ BfsEmptiesQueue
    /\ BuildRecReturns

\* The breadth-first half of C14, and the recursion on inputs without a
\* reachable cycle.
BuildTreeTerminatesWithoutCycle ==
    /\ BfsEnqueuesOnce
    /\ BfsEmptiesQueue
    /\ (pc = "build" /\ ~Cyclic(adjacency)) ~> (pc = "built")

\* The case that breaks C14: the input has a cycle that the root reaches, and
\* buildRec has called itself for an id it is still building: it recurses
\* until the call stack is exhausted and never returns a node.
C14_RecursionNeverReturns ==
    /\ pc = "overflow" /\ Cyclic(adjacency)
    /\ root = 0 /\ nodes = <<>>
    /\ \E i, j \in 1..Len(stack) : i < j /\ FrameId(stack[i]) = FrameId(stack[j])

====
